---------------------------- MODULE Spec2Model ----------------------------
(***************************************************************************)
(* Verification model of the compile/diagnose/repair retry controller of   *)
(* mcpserver-simplicity: agent_autofix.compile_and_fix,                    *)
(* agent_claude.compile_with_retries, the two repair engines and the       *)
(* diagnostic extraction.                                                  *)
(*                                                                         *)
(* Python strings are sequences of one-character strings.  A non-ASCII     *)
(* character is written "<U+xxxx>".                                        *)
(***************************************************************************)
EXTENDS Integers, Sequences, FiniteSets, TLC

(***************************************************************************)
(* Python str primitives                                                   *)
(***************************************************************************)

\* str.isspace() characters that occur in the modelled texts
WS == {" ", "\n", "\t"}

\* characters matched by the regular-expression class \w
WordChars == {"a", "b", "c", "d", "e", "f", "g", "h", "i", "j", "k", "l", "m",
              "n", "o", "p", "q", "r", "s", "t", "u", "v", "w", "x", "y", "z",
              "A", "B", "C", "D", "E", "F", "G", "H", "I", "J", "K", "L", "M",
              "N", "O", "P", "Q", "R", "S", "T", "U", "V", "W", "X", "Y", "Z",
              "0", "1", "2", "3", "4", "5", "6", "7", "8", "9", "_"}

\* characters dropped by  s.encode('ascii', 'ignore').decode('ascii')
NonAscii == {"<U+2705>", "<U+274C>"}

\* s[i:]  (1-based i, empty when i is past the end)
From(s, i) == IF i > Len(s) THEN << >> ELSE SubSeq(s, i, Len(s))

\* s[:n]
Take(s, n) == IF n >= Len(s) THEN s ELSE SubSeq(s, 1, n)

\* s[i:i+len(lit)] == lit   (1-based i)
Lit(s, i, lit) ==
    /\ i >= 1
    /\ i + Len(lit) - 1 <= Len(s)
    /\ SubSeq(s, i, i + Len(lit) - 1) = lit

\* s.startswith(lit)
StartsWith(s, lit) == Lit(s, 1, lit)

\* sub in s
Contains(s, sub) == \E i \in 1..(Len(s) - Len(sub) + 1) : Lit(s, i, sub)

\* s.find(sub), 1-based; 0 stands for Python's -1
Find(s, sub) ==
    IF Contains(s, sub)
    THEN CHOOSE i \in 1..(Len(s) - Len(sub) + 1) :
            /\ Lit(s, i, sub)
            /\ \A j \in 1..(i - 1) : ~Lit(s, j, sub)
    ELSE 0

\* s.rfind(ch) for a single character, 1-based; 0 stands for -1
RFindChar(s, ch) ==
    IF \E i \in 1..Len(s) : s[i] = ch
    THEN CHOOSE i \in 1..Len(s) :
            /\ s[i] = ch
            /\ \A j \in (i + 1)..Len(s) : s[j] # ch
    ELSE 0

\* s.strip()
Strip(s) ==
    LET keep == {i \in 1..Len(s) : s[i] \notin WS}
    IN  IF keep = {} THEN << >>
        ELSE LET lo == CHOOSE i \in keep : \A j \in keep : i <= j
                 hi == CHOOSE i \in keep : \A j \in keep : j <= i
             IN  SubSeq(s, lo, hi)

\* s.encode('ascii', 'ignore').decode('ascii')
AsciiIgnore(s) == SelectSeq(s, LAMBDA c : c \notin NonAscii)

\* s.split('\n'): a sequence of lines, never empty
RECURSIVE Split(_)
Split(s) ==
    LET nl == Find(s, <<"\n">>)
    IN  IF nl = 0 THEN << s >>
        ELSE << Take(s, nl - 1) >> \o Split(From(s, nl + 1))

\* '\n'.join(lines)
RECURSIVE Join(_)
Join(lines) ==
    IF Len(lines) = 0 THEN << >>
    ELSE IF Len(lines) = 1 THEN lines[1]
    ELSE lines[1] \o <<"\n">> \o Join(Tail(lines))

\* index of the first character at or after i that is not in the class,
\* Len(s) + 1 when there is none: the end of a greedy  [class]*  at i
RECURSIVE SkipClass(_, _, _)
SkipClass(s, i, class) ==
    IF i <= Len(s) /\ s[i] \in class THEN SkipClass(s, i + 1, class) ELSE i

\* end of a greedy  [^ch]*  at i
RECURSIVE SkipUntil(_, _, _)
SkipUntil(s, i, ch) ==
    IF i <= Len(s) /\ s[i] # ch THEN SkipUntil(s, i + 1, ch) ELSE i

(***************************************************************************)
(* String literals of the source                                           *)
(***************************************************************************)
STR_expected_program ==
    <<"e", "x", "p", "e", "c", "t", "e", "d", " ", "p", "r", "o", "g", "r", "a", "m">>
STR_expected_EOI_or_item ==
    <<"e", "x", "p", "e", "c", "t", "e", "d", " ", "E", "O", "I", " ",
      "o", "r", " ", "i", "t", "e", "m">>
STR_fn_main_parens == <<"f", "n", " ", "m", "a", "i", "n", "(", ")">>
STR_fn_main_space_paren == <<"f", "n", " ", "m", "a", "i", "n", " ", "(">>
STR_let_paren == <<"l", "e", "t", " ", "(">>
STR_comma_paren == <<",", ")">>
STR_comment == <<"/", "/">>
STR_indent == <<" ", " ", " ", " ">>
STR_wrapper_open ==
    <<"f", "n", " ", "m", "a", "i", "n", "(", ")", " ", "-", ">", " ",
      "(", ")", " ", "{", "\n">>
STR_wrapper_close == <<"\n", " ", " ", " ", " ", "(", ")", "\n", "}">>
STR_fn == <<"f", "n">>
STR_main == <<"m", "a", "i", "n">>
STR_let == <<"l", "e", "t">>
STR_jet == <<"j", "e", "t", ":", ":">>
STR_assert == <<"a", "s", "s", "e", "r", "t", "!", "(">>
STR_jet_verify == <<"j", "e", "t", ":", ":", "v", "e", "r", "i", "f", "y", "(">>

(***************************************************************************)
(* Pattern Fix Engine: agent_autofix.apply_rule_based_fixes                *)
(***************************************************************************)

WrapInMain_NoUnit(code) == STR_wrapper_open \o code \o <<"\n", "}">>

\* f"fn main() -> () {{\n{fixed_code}\n    ()\n}}"
WrapInMain(code) == STR_wrapper_open \o code \o STR_wrapper_close

StripCommentLines_Unstripped(code) ==
    Join(SelectSeq(Split(code), LAMBDA line : ~StartsWith(line, STR_comment)))

\* [line for line in lines if not line.strip().startswith('//')]
StripCommentLines(code) ==
    Join(SelectSeq(Split(code), LAMBDA line : ~StartsWith(Strip(line), STR_comment)))

WrapperHeadEnd_AllowsReturnType(s, i) ==
    IF ~Lit(s, i, STR_fn) THEN 0
    ELSE LET a == i + 2
             b == SkipClass(s, a, WS)
         IN  IF ~(b > a /\ Lit(s, b, STR_main)) THEN 0
             ELSE LET c == SkipClass(s, b + 4, WS)
                  IN  IF ~Lit(s, c, <<"(">>) THEN 0
                      ELSE LET d == SkipClass(s, c + 1, WS)
                           IN  IF ~Lit(s, d, <<")">>) THEN 0
                               ELSE LET e == SkipClass(s, d + 1, WS)
                                        f == IF Lit(s, e, <<"-", ">", " ", "(", ")">>)
                                             THEN SkipClass(s, e + 5, WS) ELSE e
                                    IN  IF Lit(s, f, <<"{">>) THEN f + 1 ELSE 0

\* the prefix  fn\s+main\s*\(\s*\)\s*\{  matched at i: the index after the
\* "{", or 0 when the prefix does not match at i
WrapperHeadEnd(s, i) ==
    IF ~Lit(s, i, STR_fn) THEN 0
    ELSE LET a == i + 2
             b == SkipClass(s, a, WS)
         IN  IF ~(b > a /\ Lit(s, b, STR_main)) THEN 0
             ELSE LET c == SkipClass(s, b + 4, WS)
                  IN  IF ~Lit(s, c, <<"(">>) THEN 0
                      ELSE LET d == SkipClass(s, c + 1, WS)
                           IN  IF ~Lit(s, d, <<")">>) THEN 0
                               ELSE LET e == SkipClass(s, d + 1, WS)
                                    IN  IF Lit(s, e, <<"{">>) THEN e + 1 ELSE 0

\* re.sub(r'fn\s+main\s*\(\s*\)\s*\{(.*)\}', r'\1', s, flags=re.DOTALL):
\* the greedy (.*) runs to the last "}" of s, so at most one match exists,
\* the leftmost prefix match that has a "}" at or after its end
SubWrapper(s) ==
    LET close == RFindChar(s, "}")
        starts == {i \in 1..Len(s) :
                      WrapperHeadEnd(s, i) # 0 /\ WrapperHeadEnd(s, i) <= close}
    IN  IF starts = {} THEN s
        ELSE LET i == CHOOSE k \in starts : \A j \in starts : k <= j
                 h == WrapperHeadEnd(s, i)
             IN  Take(s, i - 1)
                   \o (IF h <= close - 1 THEN SubSeq(s, h, close - 1) ELSE << >>)
                   \o From(s, close + 1)

\* [line[4:] if line.startswith('    ') else line for line in lines]
RECURSIVE DedentLines(_)
DedentLines(lines) ==
    IF Len(lines) = 0 THEN << >>
    ELSE << IF StartsWith(lines[1], STR_indent) THEN From(lines[1], 5)
            ELSE lines[1] >> \o DedentLines(Tail(lines))

Dedent(code) == Join(DedentLines(Split(code)))

\* the pattern  let\s+\((\w+),\)\s*=  matched at i: <<index after the match,
\* start of group 1, end of group 1>>, or <<0, 0, 0>>
TupleLetMatch(s, i) ==
    IF ~Lit(s, i, STR_let) THEN <<0, 0, 0>>
    ELSE LET a == i + 3
             b == SkipClass(s, a, WS)
         IN  IF ~(b > a /\ Lit(s, b, <<"(">>)) THEN <<0, 0, 0>>
             ELSE LET c == b + 1
                      d == SkipClass(s, c, WordChars)
                  IN  IF ~(d > c /\ Lit(s, d, STR_comma_paren)) THEN <<0, 0, 0>>
                      ELSE LET e == SkipClass(s, d + 2, WS)
                           IN  IF Lit(s, e, <<"=">>) THEN <<e + 1, c, d - 1>>
                               ELSE <<0, 0, 0>>

\* re.sub(r'let\s+\((\w+),\)\s*=', r'let \1 =', s) scanning from i
RECURSIVE SubTupleLetFrom(_, _)
SubTupleLetFrom(s, i) ==
    IF i > Len(s) THEN << >>
    ELSE LET m == TupleLetMatch(s, i)
         IN  IF m[1] # 0
             THEN STR_let \o <<" ">> \o SubSeq(s, m[2], m[3]) \o <<" ", "=">>
                    \o SubTupleLetFrom(s, m[1])
             ELSE << s[i] >> \o SubTupleLetFrom(s, i + 1)

SubTupleLet(s) == SubTupleLetFrom(s, 1)

apply_rule_based_fixes_Untrimmed(source_code, error_message) ==
    LET r1 == IF Contains(error_message, STR_expected_program)
              THEN WrapInMain(source_code) ELSE source_code
        r2 == IF Contains(error_message, STR_expected_EOI_or_item)
              THEN StripCommentLines(r1) ELSE r1
        r3 == IF Contains(r2, STR_fn_main_parens) \/ Contains(r2, STR_fn_main_space_paren)
              THEN Dedent(SubWrapper(r2)) ELSE r2
        r4 == IF Contains(r3, STR_let_paren) /\ Contains(r3, STR_comma_paren)
              THEN SubTupleLet(r3) ELSE r3
    IN  r4 \o <<"\n">>

apply_rule_based_fixes(source_code, error_message) ==
    LET r1 == IF Contains(error_message, STR_expected_program)
              THEN WrapInMain(source_code) ELSE source_code
        r2 == IF Contains(error_message, STR_expected_EOI_or_item)
              THEN StripCommentLines(r1) ELSE r1
        r3 == IF Contains(r2, STR_fn_main_parens) \/ Contains(r2, STR_fn_main_space_paren)
              THEN Dedent(SubWrapper(r2)) ELSE r2
        r4 == IF Contains(r3, STR_let_paren) /\ Contains(r3, STR_comma_paren)
              THEN SubTupleLet(r3) ELSE r3
    IN  Strip(r4) \o <<"\n">>

(***************************************************************************)
(* Rule-based fallback of the Delegated Fix Engine:                        *)
(* agent_claude.SimplicityFixAgent.apply_rule_based_fixes                  *)
(***************************************************************************)

\* the prefix  fn\s+main\(\)\s*\{  matched at i: the index after the "{",
\* or 0 when the prefix does not match at i
AgentWrapperHeadEnd(s, i) ==
    IF ~Lit(s, i, STR_fn) THEN 0
    ELSE LET a == i + 2
             b == SkipClass(s, a, WS)
         IN  IF ~(b > a /\ Lit(s, b, STR_main \o <<"(", ")">>)) THEN 0
             ELSE LET e == SkipClass(s, b + 6, WS)
                  IN  IF Lit(s, e, <<"{">>) THEN e + 1 ELSE 0

\* re.sub(r'fn\s+main\(\)\s*\{(.*)\}', r'\1', s, flags=re.DOTALL)
AgentSubWrapper(s) ==
    LET close == RFindChar(s, "}")
        starts == {i \in 1..Len(s) :
                      AgentWrapperHeadEnd(s, i) # 0 /\ AgentWrapperHeadEnd(s, i) <= close}
    IN  IF starts = {} THEN s
        ELSE LET i == CHOOSE k \in starts : \A j \in starts : k <= j
                 h == AgentWrapperHeadEnd(s, i)
             IN  Take(s, i - 1)
                   \o (IF h <= close - 1 THEN SubSeq(s, h, close - 1) ELSE << >>)
                   \o From(s, close + 1)

\* the pattern  let\s+(\w+)\s*=\s*(jet::\w+\([^)]+\));  matched at i:
\* <<index after the match, start of group 1, end of group 1,
\*   start of group 2, end of group 2>>, or a tuple of zeros
JetLetMatch(s, i) ==
    LET none == <<0, 0, 0, 0, 0>>
    IN  IF ~Lit(s, i, STR_let) THEN none
        ELSE LET a == i + 3
                 b == SkipClass(s, a, WS)
                 c == SkipClass(s, b, WordChars)
                 d == SkipClass(s, c, WS)
                 e == SkipClass(s, d + 1, WS)
                 f == e + 5
                 g == SkipClass(s, f, WordChars)
                 h == g + 1
                 k == SkipUntil(s, h, ")")
             IN  IF /\ b > a
                    /\ c > b
                    /\ Lit(s, d, <<"=">>)
                    /\ Lit(s, e, STR_jet)
                    /\ g > f
                    /\ Lit(s, g, <<"(">>)
                    /\ k > h
                    /\ Lit(s, k, <<")", ";">>)
                 THEN <<k + 2, b, c - 1, e, k>>
                 ELSE none

\* re.sub(r'let\s+(\w+)\s*=\s*(jet::\w+\([^)]+\));', r'let (\1,) = \2;', s)
\* scanning from i
RECURSIVE SubJetLetFrom(_, _)
SubJetLetFrom(s, i) ==
    IF i > Len(s) THEN << >>
    ELSE LET m == JetLetMatch(s, i)
         IN  IF m[1] # 0
             THEN STR_let_paren \o SubSeq(s, m[2], m[3]) \o <<",", ")", " ", "=", " ">>
                    \o SubSeq(s, m[4], m[5]) \o <<";">> \o SubJetLetFrom(s, m[1])
             ELSE << s[i] >> \o SubJetLetFrom(s, i + 1)

\* the pattern  assert!\(([^)]+)\);  matched at i: <<index after the match,
\* start of group 1, end of group 1>>, or <<0, 0, 0>>
AssertMatch(s, i) ==
    IF ~Lit(s, i, STR_assert) THEN <<0, 0, 0>>
    ELSE LET a == i + 8
             b == SkipUntil(s, a, ")")
         IN  IF b > a /\ Lit(s, b, <<")", ";">>) THEN <<b + 2, a, b - 1>>
             ELSE <<0, 0, 0>>

\* re.sub(r'assert!\(([^)]+)\);', r'jet::verify(\1);', s) scanning from i
RECURSIVE SubAssertFrom(_, _)
SubAssertFrom(s, i) ==
    IF i > Len(s) THEN << >>
    ELSE LET m == AssertMatch(s, i)
         IN  IF m[1] # 0
             THEN STR_jet_verify \o SubSeq(s, m[2], m[3]) \o <<")", ";">>
                    \o SubAssertFrom(s, m[1])
             ELSE << s[i] >> \o SubAssertFrom(s, i + 1)

agent_apply_rule_based_fixes(source_code, error_message) ==
    LET r1 == IF Contains(source_code, STR_fn_main_parens)
              THEN AgentSubWrapper(source_code) ELSE source_code
        r2 == SubJetLetFrom(r1, 1)
    IN  SubAssertFrom(r2, 1)

(***************************************************************************)
(* Compiler responses.  The text of a tool response is  text \o payload:   *)
(* free text followed by an optional embedded payload.  The payload is     *)
(* kept as a value, so that json.loads is its decoding, and Dump is its    *)
(* serialisation.  The free text holds no JSON document of its own.        *)
(*   k     : "none" | "malformed" | "obj"                                  *)
(*   rj    : the member result_json: "absent" | "null" | "nondict" | "dict"*)
(*   msg   : the member message of result_json                             *)
(*   trail : text follows the payload                                      *)
(***************************************************************************)
Absent == [ty |-> "absent", text |-> << >>]
PyNone == [ty |-> "none", text |-> << >>]
PyNum == [ty |-> "num", text |-> << >>]
PyList == [ty |-> "list", text |-> << >>]
Str(text) == [ty |-> "str", text |-> text]

NoPayload == [k |-> "none", rj |-> "absent", msg |-> Absent, trail |-> FALSE]
Malformed == [k |-> "malformed", rj |-> "absent", msg |-> Absent, trail |-> FALSE]
Obj(rj, msg, trail) == [k |-> "obj", rj |-> rj, msg |-> msg, trail |-> trail]

STR_marker ==
    <<"C", "o", "m", "p", "i", "l", "a", "t", "i", "o", "n", " ",
      "s", "u", "c", "c", "e", "s", "s", "f", "u", "l", "!">>
STR_check_marker == <<"<U+2705>", " ">> \o STR_marker
STR_message == <<"m", "e", "s", "s", "a", "g", "e">>
STR_message_colon == <<"m", "e", "s", "s", "a", "g", "e", "\"", ":">>
Digits == {"0", "1", "2", "3", "4", "5", "6", "7", "8", "9"}

\* json.dumps of the member message
DumpMsg(msg) ==
    IF msg.ty = "absent" THEN << >>
    ELSE <<"\"", "m", "e", "s", "s", "a", "g", "e", "\"", ":", " ">>
           \o (CASE msg.ty = "none" -> <<"n", "u", "l", "l">>
                 [] msg.ty = "num" -> <<"7">>
                 [] msg.ty = "list" -> <<"[", "]">>
                 [] msg.ty = "str" -> <<"\"">> \o msg.text \o <<"\"">>)

\* the serialised payload as it stands in the response text
Dump(p) ==
    CASE p.k = "none" -> << >>
      [] p.k = "malformed" -> <<"{", "o", "o", "p", "s">>
      [] p.k = "obj" ->
           (CASE p.rj = "absent" -> <<"{", "\"", "x", "\"", ":", " ", "1", "}">>
              [] OTHER ->
                   <<"{", "\"", "r", "e", "s", "u", "l", "t", "_", "j", "s", "o", "n", "\"", ":", " ">>
                     \o (CASE p.rj = "null" -> <<"n", "u", "l", "l">>
                           [] p.rj = "nondict" -> <<"\"", "s", "\"">>
                           [] p.rj = "dict" -> <<"{">> \o DumpMsg(p.msg) \o <<"}">>)
                     \o <<"}">>)
             \o (IF p.trail THEN <<"\n", "-", "-", "-">> ELSE << >>)

\* result.content[0].text
Raw(content) == content.text \o Dump(content.payload)

\* json.loads(text[text.find('{'):]) for the response `content` whose text
\* is `text` (Raw(content) or its ASCII projection):
\* <<decoded, is a dict, the payload>>
JsonLoadsFromBrace(content, text) ==
    LET json_start == Find(text, <<"{">>)
        stem == Len(text) - Len(Dump(content.payload))
    IN  IF json_start = 0
        THEN \* find() = -1: text[-1:], the last character
             [ok |-> text # << >> /\ text[Len(text)] \in Digits,
              dict |-> FALSE, payload |-> NoPayload]
        ELSE IF json_start <= stem
        THEN [ok |-> FALSE, dict |-> FALSE, payload |-> NoPayload]
        ELSE [ok |-> content.payload.k = "obj" /\ ~content.payload.trail,
              dict |-> TRUE, payload |-> content.payload]

\* lines 133-140 of agent_autofix / 201-208 of agent_claude: the value of
\* error_msg after the try block, for the trigger word `word`
ExtractError(content, text, word) ==
    LET js == JsonLoadsFromBrace(content, text)
    IN  IF ~Contains(text, word) THEN Str(text)
        ELSE IF ~js.ok THEN Str(text)                 \* json.loads raised
        ELSE IF ~js.dict THEN Str(text)               \* not isinstance dict
        ELSE IF js.payload.rj = "absent" THEN Str(text)
        ELSE IF js.payload.rj # "dict" THEN Str(text) \* .get raised
        ELSE IF js.payload.msg.ty = "absent" THEN Str(text)
        ELSE js.payload.msg

(***************************************************************************)
(* Delegated Fix Engine: agent_claude.SimplicityFixAgent.analyze_and_fix   *)
(*                                                                         *)
(* A reply of the reasoning service is either an exception or a text.      *)
(* The text is a sequence of tokens: "FENCE_JSON" (```json), "FENCE"       *)
(* (```), "TXT" (prose), "WS" (one whitespace character) and "JSON", the   *)
(* serialisation of the value `obj`; "JSON_CUT" is that serialisation     *)
(* without its last character.                                             *)
(***************************************************************************)
Conf(ty, pct) == [ty |-> ty, pct |-> pct]

Dict(fixed_code, explanation, confidence) ==
    [k |-> "dict", fixed_code |-> fixed_code, explanation |-> explanation,
     confidence |-> confidence]

JsonList == [k |-> "list", fixed_code |-> Absent, explanation |-> Absent,
             confidence |-> Conf("absent", 0)]

IsFence(tok) == tok \in {"FENCE_JSON", "FENCE"}

\* text[:-1]: the text without its last character
DropLastChar(toks) ==
    IF toks = << >> THEN << >>
    ELSE LET last == toks[Len(toks)]
             init == SubSeq(toks, 1, Len(toks) - 1)
         IN  CASE last = "WS" -> init
               [] last = "JSON" -> Append(init, "JSON_CUT")
               [] last = "FENCE" -> Append(init, "TXT")
               [] last = "FENCE_JSON" -> Append(init, "TXT")
               [] OTHER -> toks

\* text.strip() on tokens
StripToks(toks) ==
    LET keep == {i \in 1..Len(toks) : toks[i] # "WS"}
    IN  IF keep = {} THEN << >>
        ELSE LET lo == CHOOSE i \in keep : \A j \in keep : i <= j
                 hi == CHOOSE i \in keep : \A j \in keep : j <= i
             IN  SubSeq(toks, lo, hi)

\* response_text[json_start:json_end].strip() where json_start is the index
\* after the first token `fence` and json_end = find("```", json_start)
BetweenFences(toks, fence) ==
    LET open == CHOOSE i \in 1..Len(toks) :
                    toks[i] = fence /\ \A j \in 1..(i - 1) : toks[j] # fence
        rest == From(toks, open + 1)
        closes == {i \in 1..Len(rest) : IsFence(rest[i])}
    IN  IF closes = {} THEN StripToks(DropLastChar(rest))
        ELSE LET c == CHOOSE i \in closes : \A j \in closes : i <= j
             IN  StripToks(Take(rest, c - 1))

\* lines 101-108: the text handed to json.loads
ExtractJsonText(toks) ==
    IF \E i \in 1..Len(toks) : toks[i] = "FENCE_JSON"
    THEN BetweenFences(toks, "FENCE_JSON")
    ELSE IF \E i \in 1..Len(toks) : toks[i] = "FENCE"
    THEN BetweenFences(toks, "FENCE")
    ELSE toks

\* lines 97-116 raise: json.loads fails, or the prints of lines 113-114 fail
\* (result.get on a non-dict, slicing a non-string explanation, formatting
\* a non-numeric confidence with .0%)
ParseRaises(reply) ==
    \/ ExtractJsonText(reply.toks) # <<"JSON">>
    \/ reply.obj.k # "dict"
    \/ reply.obj.explanation.ty \notin {"absent", "str", "list"}
    \/ reply.obj.confidence.ty \notin {"absent", "num"}

FallbackConfidence_TooHigh(path) == IF path = "no_client" THEN 50 ELSE 80

\* the confidence literals of lines 54 and 125, in percent
FallbackConfidence(path) == IF path = "no_client" THEN 50 ELSE 30

\* lines 50-55 and 121-126
Fallback(source_code, error_message, path) ==
    [result |-> Dict(Str(agent_apply_rule_based_fixes(source_code, error_message)),
                     Str(<< IF path = "no_client"
                            THEN "Rule-based fix applied (no LLM available)"
                            ELSE "API error, used rule-based fix: " >>),
                     Conf("num", FallbackConfidence(path))),
     path |-> path]

\* the dict returned by analyze_and_fix and the return statement it left by
analyze_and_fix(has_client, source_code, error_message, reply) ==
    IF ~has_client THEN Fallback(source_code, error_message, "no_client")
    ELSE IF reply.raises \/ ParseRaises(reply)
    THEN Fallback(source_code, error_message, "except")
    ELSE [result |-> reply.obj, path |-> "llm"]

(***************************************************************************)
(* Inputs of the retry runs                                                *)
(***************************************************************************)
\* largest max_attempts a run is started with
MaxBudget == 3
\* magnitude of the most negative max_attempts a run is started with
\* (--max-attempts= takes any int)
MaxNegBudget == 1

SRC_expr == <<"1", " ", "+", " ", "1">>
SRC_comment == <<"/", "/", " ", "c", "\n", "x">>
SRC_wrapped ==
    <<"f", "n", " ", "m", "a", "i", "n", "(", ")", " ", "{", "\n",
      " ", " ", " ", " ", "x", "\n", "}">>
SRC_empty == << >>

\* contents of the source files handed to a run
Sources == {SRC_expr, SRC_comment, SRC_wrapped, SRC_empty}

Content(text, payload) == [text |-> text, payload |-> payload]

TXT_failed == <<"<U+274C>", " ", "f", "a", "i", "l", "e", "d", ":", " ">>
TXT_message == <<"<U+274C>", " ", "m", "e", "s", "s", "a", "g", "e", "\"", ":", " ">>

\* tool responses the compiler collaborator may give
SuccessReplies ==
    { Content(STR_check_marker, NoPayload),
      Content(STR_check_marker \o <<" ">> \o STR_message, Malformed) }

\* the failure response of the server's compile_simplicity for a compiler
\* result that carries `message` and no errors:
\*   "<banner>\n\nErrors:\n{errors}\n\nOutput:\n{output}" and
\*   "\n\n---\nFull response:\n" + json.dumps(result, indent=2)
\* where output is the dump of the compiler result and the full dump holds it
\* again under "result_json" (the other members of the full dump are left out)
STR_server_failed ==
    <<"<U+274C>", " ", "C", "o", "m", "p", "i", "l", "a", "t", "i", "o",
      "n", " ", "f", "a", "i", "l", "e", "d", "\n", "\n", "E", "r", "r",
      "o", "r", "s", ":", "\n">>
STR_server_output ==
    <<"\n", "\n", "O", "u", "t", "p", "u", "t", ":", "\n">>
STR_server_full ==
    <<"\n", "\n", "-", "-", "-", "\n", "F", "u", "l", "l", " ", "r", "e",
      "s", "p", "o", "n", "s", "e", ":", "\n">>

OutputDump(msg) == <<"{", "\n", " ", " ">> \o DumpMsg(msg) \o <<"\n", "}">>

ServerFailure(message) ==
    Content(STR_server_failed \o STR_server_output \o OutputDump(Str(message))
              \o STR_server_full,
            Obj("dict", Str(message), FALSE))

PlainFailureReplies ==
    { Content(<<"<U+274C>", " ">> \o STR_expected_program, NoPayload),
      Content(TXT_failed, Obj("dict", Str(STR_expected_EOI_or_item), FALSE)),
      ServerFailure(STR_expected_program) }

MalformedFailureReplies ==
    { Content(TXT_message, Malformed),
      Content(TXT_message \o <<"5">>, NoPayload),
      Content(TXT_message, Obj("absent", Absent, FALSE)),
      Content(TXT_message, Obj("null", Absent, FALSE)),
      Content(TXT_failed, Obj("dict", PyNone, FALSE)),
      Content(TXT_failed, Obj("dict", PyNum, FALSE)),
      Content(TXT_failed, Obj("dict", PyList, FALSE)) }

CompilerReplies == SuccessReplies \cup PlainFailureReplies \cup MalformedFailureReplies

Reply(raises, toks, obj) == [raises |-> raises, toks |-> toks, obj |-> obj]

FullFix == Dict(Str(<<"x">>), Str(<<"fixed">>), Conf("num", 90))
BareFix == Dict(Str(SRC_expr), Absent, Conf("absent", 0))
ZeroConfFix == Dict(Str(<<"x">>), Str(<<"guess">>), Conf("num", 0))
NoCodeFix == Dict(Absent, Str(<<"fixed">>), Conf("num", 90))
NullCodeFix == Dict(PyNone, Str(<<"fixed">>), Conf("num", 90))

\* replies the reasoning service may give
ServiceReplies ==
    { Reply(TRUE, << >>, JsonList),
      Reply(FALSE, <<"JSON">>, FullFix),
      Reply(FALSE, <<"JSON">>, ZeroConfFix),
      Reply(FALSE, <<"TXT", "WS", "FENCE_JSON", "WS", "JSON", "WS", "FENCE">>, BareFix),
      Reply(FALSE, <<"FENCE", "WS", "JSON", "WS", "FENCE", "WS", "TXT">>, FullFix),
      Reply(FALSE, <<"TXT", "WS", "JSON", "WS", "TXT">>, FullFix),
      Reply(FALSE, <<"FENCE_JSON", "WS", "JSON">>, FullFix),
      Reply(FALSE, <<"TXT">>, JsonList),
      Reply(FALSE, <<"JSON">>, JsonList),
      Reply(FALSE, <<"JSON">>, NoCodeFix),
      Reply(FALSE, <<"JSON">>, NullCodeFix) }

(***************************************************************************)
(* The retry run: agent_autofix.compile_and_fix (impl = "autofix") and     *)
(* agent_claude.compile_with_retries (impl = "claude")                     *)
(***************************************************************************)
VARIABLES
    impl,          \* which of the two controllers runs
    use_llm,       \* compile_and_fix(use_llm=...)
    has_client,    \* agent.client is not None
    max_attempts,  \* the parameter max_attempts
    source_code,   \* the parameter source_code
    attempt,       \* the loop variable, 0 before the first iteration
    current_code,  \* the local current_code
    history,       \* the local attempts_history / history
    error_msg,     \* the local error_msg of the last failed attempt
    fix_result,    \* the dict analyze_and_fix returned last
    fix_path,      \* the return statement of analyze_and_fix it came from
    pc,            \* position of the run
    requests,      \* sources submitted to compile_simplicity, in order
    replies,       \* the tool responses received, in order
    repairs,       \* invocations of the repair strategy, in order
    ret,           \* the returned tuple
    exc,           \* the exception that left the run
    fx_pc, fx_source, fx_error, fx_out   \* one call of the Pattern Fix Engine

runVars == <<impl, use_llm, has_client, max_attempts, source_code, attempt,
             current_code, history, error_msg, fix_result, fix_path, pc,
             requests, replies, repairs, ret, exc>>
fxVars == <<fx_pc, fx_source, fx_error, fx_out>>

VARIABLES
    compilation_history,  \* the module-level list compilation_history
    recorded,             \* every entry add_to_history was handed, in order
    tmp_files,            \* the temporary artifacts on disk
    sv_pc,                \* position of the tool handler
    sv_request,           \* the arguments of the tool call being handled
    sv_raised,            \* an exception is propagating to the handler's except
    sv_result,            \* what compile_with_pysimplicityhl returned
    sv_response,          \* the response of the last tool call
    submissions           \* compile_simplicity calls received so far

VARIABLES
    bt_impl,      \* which main() runs the batch
    bt_pc,        \* position of the batch runner
    bt_index,     \* the case being processed, 1-based
    bt_success,   \* the local success of the case being processed
    bt_results,   \* the dict results, in insertion order
    bt_raised,    \* the cases whose processing raised
    bt_summary,   \* the summary was printed
    bt_exit,      \* the process exit code
    bt_attempt,   \* submissions made for the case being processed
    bt_outstanding,  \* compile submissions sent and not yet answered
    bt_repairing,    \* repair calls started and not yet ended
    bt_reply      \* how the call awaited last ended

svVars == <<compilation_history, recorded, tmp_files, sv_pc, sv_request,
            sv_raised, sv_result, sv_response, submissions>>
btVars == <<bt_impl, bt_pc, bt_index, bt_success, bt_results, bt_raised,
            bt_summary, bt_exit, bt_attempt, bt_outstanding, bt_repairing,
            bt_reply>>
vars == <<runVars, fxVars, svVars, btVars>>

NoResult == [success |-> FALSE, code |-> << >>, history |-> << >>]
NoExc == [type |-> "none", line |-> 0]
NoFix == Dict(Absent, Absent, Conf("absent", 0))

FxIdle ==
    /\ fx_pc = "idle"
    /\ fx_source = << >>
    /\ fx_error = << >>
    /\ fx_out = << >>

NoRequest == [tool |-> "none", source_len |-> 0, witness_len |-> 0,
              source_file |-> FALSE, witness_file |-> FALSE, limit |-> 0]
NoResponse == [kind |-> "none", entries |-> << >>]
NoCompileResult == [kind |-> "none", lib |-> "none", marker |-> FALSE]

SvIdle ==
    /\ compilation_history = << >>
    /\ recorded = << >>
    /\ tmp_files = {}
    /\ sv_pc = "off"
    /\ sv_request = NoRequest
    /\ sv_raised = FALSE
    /\ sv_result = NoCompileResult
    /\ sv_response = NoResponse
    /\ submissions = 0

NoExit == 0 - 1

BtIdle ==
    /\ bt_impl = "autofix"
    /\ bt_pc = "off"
    /\ bt_index = 0
    /\ bt_success = FALSE
    /\ bt_results = << >>
    /\ bt_raised = {}
    /\ bt_summary = FALSE
    /\ bt_exit = NoExit
    /\ bt_attempt = 0
    /\ bt_outstanding = 0
    /\ bt_repairing = 0
    /\ bt_reply = "none"

Init ==
    /\ impl \in {"autofix", "claude"}
    /\ use_llm \in BOOLEAN
    /\ has_client \in BOOLEAN
    /\ impl = "autofix" => ~has_client
    /\ impl = "claude" => ~use_llm
    /\ max_attempts \in (0 - MaxNegBudget)..MaxBudget
    /\ source_code \in Sources
    /\ attempt = 0
    /\ current_code = source_code
    /\ history = << >>
    /\ error_msg = Absent
    /\ fix_result = NoFix
    /\ fix_path = "none"
    /\ pc = "loop"
    /\ requests = << >>
    /\ replies = << >>
    /\ repairs = << >>
    /\ ret = NoResult
    /\ exc = NoExc
    /\ FxIdle
    /\ SvIdle
    /\ BtIdle

RangeHasNext_OffByOne(a, max) == a <= max

\* for attempt in range(1, max_attempts + 1): another iteration follows a
RangeHasNext(a, max) == a + 1 <= max

IsLastAttempt_Never(a, max) == FALSE

\* if attempt >= max_attempts: break
IsLastAttempt(a, max) == a >= max

ReturnOnSuccess_Original(original, current, hist) ==
    [success |-> TRUE, code |-> original, history |-> hist]

\* return True, current_code, history
ReturnOnSuccess(original, current, hist) ==
    [success |-> TRUE, code |-> current, history |-> hist]

ReturnFailure_ReportsSuccess(current, hist) ==
    [success |-> TRUE, code |-> current, history |-> hist]

\* return False, current_code, history
ReturnFailure(current, hist) ==
    [success |-> FALSE, code |-> current, history |-> hist]

\* the loop header and the call of compile_simplicity
Submit ==
    /\ pc = "loop"
    /\ RangeHasNext(attempt, max_attempts)
    /\ attempt' = attempt + 1
    /\ requests' = Append(requests, current_code)
    /\ pc' = "compiling"
    /\ UNCHANGED <<impl, use_llm, has_client, max_attempts, source_code,
                   current_code, history, error_msg, fix_result, fix_path,
                   replies, repairs, ret, exc, fxVars, svVars, btVars>>

\* the range is exhausted: the return after the loop
LoopExit ==
    /\ pc = "loop"
    /\ ~RangeHasNext(attempt, max_attempts)
    /\ ret' = ReturnFailure(current_code, history)
    /\ pc' = "returned"
    /\ UNCHANGED <<impl, use_llm, has_client, max_attempts, source_code,
                   attempt, current_code, history, error_msg, fix_result,
                   fix_path, requests, replies, repairs, exc, fxVars, svVars, btVars>>

\* one record of attempts_history / history; excerpt is the entry "result"
\* of agent_autofix, the entry "error" of agent_claude (Absent when the
\* record has none)
Attempt(index, code, success, excerpt) ==
    [attempt |-> index, code |-> code, success |-> success, excerpt |-> excerpt]

\* value[:n] of a str or list value
Excerpt(value, n) ==
    IF value.ty = "str" THEN Str(Take(value.text, n)) ELSE value

\* agent_autofix lines 113-150: the response of compile_simplicity arrives
AutofixReply(content) ==
    LET content_safe == AsciiIgnore(Raw(content))
        succeeded == Contains(content_safe, STR_marker)
        hist == Append(history,
                       Attempt(attempt, current_code, succeeded,
                               Str(Take(content_safe, 500))))
        err == ExtractError(content, content_safe, STR_message)
    IN  /\ pc = "compiling"
        /\ impl = "autofix"
        /\ replies' = Append(replies, content)
        /\ history' = hist
        /\ IF succeeded
           THEN /\ ret' = ReturnOnSuccess(source_code, current_code, hist)
                /\ pc' = "returned"
                /\ UNCHANGED <<error_msg, exc>>
           ELSE /\ error_msg' = err
                /\ IF err.ty # "str"
                   THEN \* error_msg.encode: 'NoneType' object has no attribute
                        /\ exc' = [type |-> "AttributeError", line |-> 144]
                        /\ pc' = "raised"
                        /\ UNCHANGED ret
                   ELSE IF IsLastAttempt(attempt, max_attempts)
                   THEN /\ ret' = ReturnFailure(current_code, hist)
                        /\ pc' = "returned"
                        /\ UNCHANGED exc
                   ELSE /\ pc' = "fixing"
                        /\ UNCHANGED <<ret, exc>>
        /\ UNCHANGED <<impl, use_llm, has_client, max_attempts, source_code,
                       attempt, current_code, fix_result, fix_path, requests,
                       repairs, fxVars, svVars, btVars>>

\* LLM_PROVIDER = "anthropic"
LLM_PROVIDER == "anthropic"

fix_code_with_llm_Unchanged(code, error_message, n) == code

\* agent_autofix.fix_code_with_llm
fix_code_with_llm(code, error_message, n) ==
    IF LLM_PROVIDER = "anthropic" THEN apply_rule_based_fixes(code, error_message)
    ELSE IF LLM_PROVIDER = "openai" THEN apply_rule_based_fixes(code, error_message)
    ELSE apply_rule_based_fixes(code, error_message)

AfterRepair_StopsOnStagnation(current, fixed) ==
    IF fixed = current THEN "returned" ELSE "loop"

\* after current_code = fixed_code the for loop goes on with the next attempt,
\* whether or not the repair changed the source
AfterRepair(current, fixed) == "loop"

AppliedFix_GatedByConfidence(current, result) ==
    IF result.confidence.ty = "num" /\ result.confidence.pct >= 50
    THEN result.fixed_code.text ELSE current

AppliedFix_KeepsCurrent(current, result) == current

\* current_code = fix_result["fixed_code"]
AppliedFix(current, result) == result.fixed_code.text

\* agent_autofix lines 152-164: the repair strategy runs
AutofixRepair ==
    LET fixed == IF use_llm
                 THEN fix_code_with_llm(current_code, error_msg.text, attempt)
                 ELSE apply_rule_based_fixes(current_code, error_msg.text)
    IN  /\ pc = "fixing"
        /\ impl = "autofix"
        /\ current_code' = fixed
        /\ repairs' = Append(repairs, [source |-> current_code, error |-> error_msg,
                                       result |-> Str(fixed)])
        /\ pc' = AfterRepair(current_code, fixed)
        /\ UNCHANGED <<impl, use_llm, has_client, max_attempts, source_code,
                       attempt, history, error_msg, fix_result, fix_path,
                       requests, replies, ret, exc, fxVars, svVars, btVars>>

\* agent_claude lines 187-221: the response of compile_simplicity arrives
ClaudeReply(content) ==
    LET text == Raw(content)
        succeeded == Contains(text, STR_check_marker)
        err == ExtractError(content, text, STR_message_colon)
    IN  /\ pc = "compiling"
        /\ impl = "claude"
        /\ replies' = Append(replies, content)
        /\ IF succeeded
           THEN /\ history' = Append(history, Attempt(attempt, current_code, TRUE, Absent))
                /\ ret' = ReturnOnSuccess(source_code, current_code, history')
                /\ pc' = "returned"
                /\ UNCHANGED <<error_msg, exc>>
           ELSE /\ error_msg' = err
                /\ IF err.ty \notin {"str", "list"}
                   THEN \* error_msg[:250]: object is not subscriptable
                        /\ exc' = [type |-> "TypeError", line |-> 211]
                        /\ pc' = "raised"
                        /\ UNCHANGED <<history, ret>>
                   ELSE /\ history' = Append(history,
                                             Attempt(attempt, current_code, FALSE,
                                                     Excerpt(err, 200)))
                        /\ IF IsLastAttempt(attempt, max_attempts)
                           THEN /\ ret' = ReturnFailure(current_code, history')
                                /\ pc' = "returned"
                                /\ UNCHANGED exc
                           ELSE /\ pc' = "fixing"
                                /\ UNCHANGED <<ret, exc>>
        /\ UNCHANGED <<impl, use_llm, has_client, max_attempts, source_code,
                       attempt, current_code, fix_result, fix_path, requests,
                       repairs, fxVars, svVars, btVars>>

\* agent_claude lines 223-230: the agent is asked for a fix; `reply` is what
\* the reasoning service answers when the agent has a client
ClaudeRepair(reply) ==
    LET fix == analyze_and_fix(has_client, current_code, error_msg, reply)
        fixed == fix.result.fixed_code
    IN  /\ pc = "fixing"
        /\ impl = "claude"
        /\ fix_result' = fix.result
        /\ fix_path' = fix.path
        /\ repairs' = Append(repairs, [source |-> current_code, error |-> error_msg,
                                       result |-> fixed])
        /\ IF fixed.ty = "absent"
           THEN \* fix_result["fixed_code"]
                /\ exc' = [type |-> "KeyError", line |-> 227]
                /\ pc' = "raised"
                /\ UNCHANGED current_code
           ELSE IF fixed.ty # "str"
           THEN \* len(current_code) of the preview
                /\ exc' = [type |-> "TypeError", line |-> 230]
                /\ pc' = "raised"
                /\ UNCHANGED current_code
           ELSE /\ current_code' = AppliedFix(current_code, fix.result)
                /\ pc' = AfterRepair(current_code, current_code')
                /\ UNCHANGED exc
        /\ UNCHANGED <<impl, use_llm, has_client, max_attempts, source_code,
                       attempt, history, error_msg, requests, replies, ret, fxVars, svVars, btVars>>

Next ==
    \/ Submit
    \/ LoopExit
    \/ \E content \in CompilerReplies : AutofixReply(content)
    \/ AutofixRepair
    \/ \E content \in CompilerReplies : ClaudeReply(content)
    \/ \E reply \in (IF has_client THEN ServiceReplies
                     ELSE {Reply(FALSE, << >>, JsonList)}) : ClaudeRepair(reply)

Spec == Init /\ [][Next]_vars

(***************************************************************************)
(* One call of the Pattern Fix Engine on inputs drawn from bounded sets    *)
(***************************************************************************)
\* largest number of fragments a drawn source is made of
MaxFrags == 3

Fragments ==
    { STR_fn_main_parens, <<" ", "{">>, <<"}">>, <<"\n">>, STR_indent, <<"x">>,
      <<"/", "/", " ", "c">>, <<"l", "e", "t", " ", "(", "a", ",", ")", " ", "=">>,
      <<" ">>, SRC_expr }

RECURSIVE Concats(_)
Concats(n) ==
    IF n = 0 THEN {<< >>}
    ELSE LET shorter == Concats(n - 1)
         IN  shorter \cup {p \o f : p \in shorter, f \in Fragments}

FxSources == Concats(MaxFrags)

FxErrors ==
    { << >>,
      <<"s", "y", "n", "t", "a", "x">>,
      STR_expected_program,
      STR_expected_EOI_or_item,
      STR_expected_program \o <<";", " ">> \o STR_expected_EOI_or_item }

RunIdle ==
    /\ impl = "autofix"
    /\ use_llm = FALSE
    /\ has_client = FALSE
    /\ max_attempts = 0
    /\ source_code = << >>
    /\ attempt = 0
    /\ current_code = << >>
    /\ history = << >>
    /\ error_msg = Absent
    /\ fix_result = NoFix
    /\ fix_path = "none"
    /\ pc = "idle"
    /\ requests = << >>
    /\ replies = << >>
    /\ repairs = << >>
    /\ ret = NoResult
    /\ exc = NoExc

FxInit ==
    /\ RunIdle
    /\ SvIdle
    /\ BtIdle
    /\ fx_pc = "ready"
    /\ fx_source \in FxSources
    /\ fx_error \in FxErrors
    /\ fx_out = << >>

\* fixed = apply_rule_based_fixes(source, error)
FxApply ==
    /\ fx_pc = "ready"
    /\ fx_out' = apply_rule_based_fixes(fx_source, fx_error)
    /\ fx_pc' = "done"
    /\ UNCHANGED <<fx_source, fx_error, runVars, svVars, btVars>>

FxNext == FxApply

SpecFix == FxInit /\ [][FxNext]_vars

(***************************************************************************)
(* Properties                                                              *)
(***************************************************************************)
Terminated == pc \in {"returned", "raised"}

\* number of compile submissions of the run so far
attemptsMade == Len(requests)

\* the controller's own success test on a tool response
ReportsSuccess(content) ==
    IF impl = "autofix" THEN Contains(AsciiIgnore(Raw(content)), STR_marker)
    ELSE Contains(Raw(content), STR_check_marker)

\* C1 as stated: whatever integer max_attempts is, a finished run made at
\* least 1 and at most max_attempts submissions and a returned history has
\* one entry per submission.
C1_Original ==
    /\ Terminated => (1 <= attemptsMade /\ attemptsMade <= max_attempts)
    /\ pc = "returned" => Len(ret.history) = attemptsMade

\* C1 amended: a run started with max_attempts >= 1 makes at least 1 and at
\* most max_attempts submissions; a run started with max_attempts <= 0 makes
\* none; a returned history has exactly one entry per submission.
C1_AttemptBounds ==
    /\ attemptsMade <= (IF max_attempts >= 1 THEN max_attempts ELSE 0)
    /\ (Terminated /\ max_attempts >= 1) => 1 <= attemptsMade
    /\ pc = "returned" => Len(ret.history) = attemptsMade

C1_Witness ==
    /\ pc = "returned"
    /\ max_attempts = 3
    /\ attemptsMade = 2
    /\ Len(ret.history) = 2

\* C2: when the response to attempt k reports success the run has stopped
\* there: k is the last submission, only the k - 1 earlier failures were
\* repaired, and the run returned success with the source submitted at k
\* and k history entries.
C2_SuccessStops ==
    \A k \in 1..Len(replies) :
        ReportsSuccess(replies[k]) =>
            /\ k = Len(replies)
            /\ attemptsMade = k
            /\ Len(repairs) = k - 1
            /\ pc = "returned"
            /\ ret.success
            /\ ret.code = requests[k]
            /\ Len(ret.history) = k

C2_Witness ==
    /\ pc = "returned"
    /\ max_attempts = 3
    /\ Len(replies) = 2
    /\ ReportsSuccess(replies[2])
    /\ ret.success
    /\ requests[2] # source_code

\* C3 as stated: a finished run with max_attempts = n >= 1 in which no
\* response reported success made exactly n submissions and returned
\* success = false.
C3_Claim ==
    (/\ Terminated
     /\ max_attempts >= 1
     /\ \A k \in 1..Len(replies) : ~ReportsSuccess(replies[k]))
    => (attemptsMade = max_attempts /\ pc = "returned" /\ ~ret.success)

\* C4: once the response to attempt max_attempts has arrived and reports a
\* failure, the run is over, the repair strategy ran only for the earlier
\* attempts, and a returned final source is the source submitted last.
C4_FinalIsLastSubmitted ==
    (/\ max_attempts >= 1
     /\ Len(replies) = max_attempts
     /\ ~ReportsSuccess(replies[max_attempts]))
    => /\ Terminated
       /\ attemptsMade = max_attempts
       /\ Len(repairs) = max_attempts - 1
       /\ pc = "returned" => (~ret.success /\ ret.code = requests[max_attempts])

C4_Witness ==
    /\ pc = "returned"
    /\ impl = "autofix"
    /\ max_attempts = 2
    /\ Len(replies) = 2
    /\ ~ret.success
    /\ ret.code = requests[2]
    /\ requests[2] # requests[1]
    /\ apply_rule_based_fixes(ret.code, error_msg.text) # ret.code

\* C5 as stated: the recorded indices are 1, 2, 3, ..., there is one record
\* per handled submission, and a run that ended did so at the first
\* succeeded attempt or at attempt max_attempts.
C5_Claim ==
    /\ \A k \in 1..Len(history) : history[k].attempt = k
    /\ pc # "compiling" => Len(history) = attemptsMade
    /\ (Terminated /\ max_attempts >= 1) =>
          /\ attemptsMade >= 1
          /\ \/ ReportsSuccess(replies[attemptsMade])
             \/ attemptsMade = max_attempts

\* C6 as stated: a response with the success marker is classified as
\* succeeded, and no response makes the extraction step raise.
C6_Claim ==
    /\ \A k \in 1..Len(history) :
          ReportsSuccess(replies[k]) => history[k].success
    /\ ~(pc = "raised" /\ exc.line \in {144, 211})

\* C7 as stated: a FixResult produced on an internal fault of the Delegated
\* Fix Engine has a non-empty string as fixed source.
C7_Claim ==
    fix_path \in {"no_client", "except"} =>
        (fix_result.fixed_code.ty = "str" /\ fix_result.fixed_code.text # << >>)

\* C8 as stated: no behaviour of the reasoning service makes the run end
\* with an error at the repair step.
C8_Claim == ~(pc = "raised" /\ exc.line \in {227, 230})

\* C9: a FixResult produced by the rule-based fallback of the Delegated Fix
\* Engine carries a numeric confidence of at most 0.5.
C9_FallbackConfidenceLow ==
    fix_path \in {"no_client", "except"} =>
        (fix_result.confidence.ty = "num" /\ fix_result.confidence.pct <= 50)

C9_Witness ==
    /\ fix_path = "except"
    /\ has_client
    /\ fix_result.confidence.pct = 30
    /\ Len(repairs) = 2

\* no rule of the Pattern Fix Engine is triggered by (source, error)
NoTrigger(source, error) ==
    /\ ~Contains(error, STR_expected_program)
    /\ ~Contains(error, STR_expected_EOI_or_item)
    /\ ~Contains(source, STR_fn_main_parens)
    /\ ~Contains(source, STR_fn_main_space_paren)
    /\ ~(Contains(source, STR_let_paren) /\ Contains(source, STR_comma_paren))

\* C10 as stated: with no rule trigger present the output of the Pattern
\* Fix Engine is the source with surrounding whitespace trimmed.
C10_Original ==
    (fx_pc = "done" /\ NoTrigger(fx_source, fx_error)) => fx_out = Strip(fx_source)

\* C10 amended: with no rule trigger present the output of the Pattern Fix
\* Engine is the source with surrounding whitespace trimmed, followed by
\* exactly one newline.
C10_TrimmedPlusNewline ==
    (fx_pc = "done" /\ NoTrigger(fx_source, fx_error)) =>
        fx_out = Strip(fx_source) \o <<"\n">>

C10_Witness ==
    /\ fx_pc = "done"
    /\ NoTrigger(fx_source, fx_error)
    /\ fx_source # Strip(fx_source)
    /\ Strip(fx_source) # << >>
    /\ fx_out = Strip(fx_source) \o <<"\n">>

\* s.endswith(lit)
EndsWith(s, lit) == Lit(s, Len(s) - Len(lit) + 1, lit)

\* the source holds no text of a function wrapper: not both "fn" and "main"
NoWrapper(source) == ~(Contains(source, STR_fn) /\ Contains(source, STR_main))

\* no rule other than rule 1 can change the source
PlainSource(source, error) ==
    /\ ~Contains(error, STR_expected_EOI_or_item)
    /\ \A k \in 1..Len(Split(source)) : ~StartsWith(Split(source)[k], STR_indent)
    /\ ~(Contains(source, STR_let_paren) /\ Contains(source, STR_comma_paren))

STR_unit_close == <<"(", ")", "\n", "}", "\n">>

AfterCommentRule(source, error) ==
    LET r1 == IF Contains(error, STR_expected_program)
              THEN WrapInMain(source) ELSE source
    IN  IF Contains(error, STR_expected_EOI_or_item)
        THEN StripCommentLines(r1) ELSE r1

\* the text after the wrapper-stripping rule
AfterWrapperRule(source, error) ==
    LET r2 == AfterCommentRule(source, error)
    IN  IF Contains(r2, STR_fn_main_parens) \/ Contains(r2, STR_fn_main_space_paren)
        THEN Dedent(SubWrapper(r2)) ELSE r2

\* the wrapper pattern matches nowhere in this call
WrapperUntouched(source, error) ==
    LET r2 == AfterCommentRule(source, error)
    IN  SubWrapper(r2) = r2

\* the single-element tuple pattern matches nowhere in this call
TupleUntouched(source, error) ==
    LET r3 == AfterWrapperRule(source, error)
    IN  SubTupleLet(r3) = r3

\* line.strip().startswith('//')
IsCommentLine(line) == StartsWith(Strip(line), STR_comment)

\* the lines of a text up to whitespace: each line stripped, blank lines dropped
NormLines(text) ==
    LET lines == Split(text)
        stripped == [k \in 1..Len(lines) |-> Strip(lines[k])]
    IN  SelectSeq(stripped, LAMBDA line : line # << >>)

\* the lines of the source that are no comment lines, up to whitespace
KeptLines(source) == SelectSeq(NormLines(source), LAMBDA line : ~IsCommentLine(line))

\* the lines rule 1 puts around the source, up to whitespace
WrapperLinesBefore(error) ==
    IF Contains(error, STR_expected_program)
    THEN << <<"f", "n", " ", "m", "a", "i", "n", "(", ")", " ", "-", ">", " ", "(", ")", " ", "{">> >>
    ELSE << >>

WrapperLinesAfter(error) ==
    IF Contains(error, STR_expected_program) THEN << <<"(", ")">>, <<"}">> >> ELSE << >>

\* the output has no comment line and keeps the other lines of the source in
\* order, up to whitespace
CommentsStrippedOnly(source, error, out) ==
    /\ \A k \in 1..Len(Split(out)) : ~IsCommentLine(Split(out)[k])
    /\ NormLines(out) = WrapperLinesBefore(error) \o KeptLines(source) \o WrapperLinesAfter(error)

-----------------------------------------------------------------------------
\* The MCP server (server.py): compile_simplicity, get_compilation_history and
\* the attempt history they share. A text is modelled by its length. A handler
\* has no await inside, so no other handler runs between its steps.

HistoryCapacity == 50
SourceCap == 500
WitnessCap == 200
DefaultLimit == 10

MaxSubmissions == 2
MaxLimit == 2
MaxNegLimit == 1

Min(a, b) == IF a <= b THEN a ELSE b
Max(a, b) == IF a >= b THEN a ELSE b

\* text[:cap] + "..." if len(text) > cap else text
Truncated(len, cap) ==
    IF len > cap THEN [kind |-> "text", chars |-> cap, dots |-> TRUE]
    ELSE [kind |-> "text", chars |-> len, dots |-> FALSE]

\* f"[file: {path}]"
FileLabel == [kind |-> "file", chars |-> 0, dots |-> FALSE]

\* the dict add_to_history appends; the clock of the event loop is modelled by
\* the number of entries recorded before
Entry(stamp, source, witness, success, outcome) ==
    [timestamp |-> stamp, source_code |-> source, witness_data |-> witness,
     success |-> success, outcome |-> outcome]

add_to_history_NoEviction(hist, entry) == Append(hist, entry)

\* compilation_history.append(...); if len(compilation_history) > 50: pop(0)
add_to_history(hist, entry) ==
    LET appended == Append(hist, entry)
    IN  IF Len(appended) > HistoryCapacity THEN Tail(appended) ELSE appended

\* seq[-limit:]
SliceLast(seq, limit) ==
    LET n == Len(seq)
        start == IF 0 - limit < 0 THEN Max(n - limit, 0) ELSE Min(0 - limit, n)
    IN  SubSeq(seq, start + 1, n)

\* reversed(seq)
Reversed(seq) == [k \in 1..Len(seq) |-> seq[Len(seq) + 1 - k]]

\* tempfile.TemporaryDirectory().__exit__
Cleanup_OnlyOnSuccess(files, raised) == IF raised THEN files ELSE {}

Cleanup(files, raised) == {}

\* the entries of n earlier submissions of a short source; up to the capacity
\* none of them was evicted
Served(n) ==
    [k \in 1..n |-> Entry(k - 1, Truncated(3, SourceCap), Truncated(0, WitnessCap),
                          k % 2 = 0, IF k % 2 = 0 THEN "success" ELSE "failed")]

Prefills == {0, 1, HistoryCapacity - 1, HistoryCapacity}

CompileRequests ==
    { [tool |-> "compile_simplicity", source_len |-> r[1], witness_len |-> r[2],
       source_file |-> r[3], witness_file |-> r[4], limit |-> 0] :
      r \in { <<3, 0, FALSE, FALSE>>, <<3, 2, FALSE, FALSE>>,
              <<SourceCap + 1, WitnessCap + 1, FALSE, FALSE>>,
              <<0, 0, TRUE, TRUE>>, <<0, 0, FALSE, FALSE>> } }

Limits == ((0 - MaxNegLimit)..MaxLimit) \cup {DefaultLimit}

\* use_temp_files = not source_file and source_code
use_temp_files(req) == ~req.source_file /\ req.source_len > 0

File(name) == [submission |-> submissions, name |-> name]

Dispatchable_Preemptive(running) == TRUE

\* the event loop starts the next tool call only when no handler is running:
\* call_tool awaits nothing in these branches, so a handler that was started
\* runs to its return before another one is dispatched
Dispatchable(running) == running = "idle"

SvInit ==
    /\ RunIdle
    /\ FxIdle
    /\ BtIdle
    /\ \E n \in Prefills :
          /\ recorded = Served(n)
          /\ compilation_history = Served(n)
    /\ tmp_files = {}
    /\ sv_pc = "idle"
    /\ sv_request = NoRequest
    /\ sv_raised = FALSE
    /\ sv_result = NoCompileResult
    /\ sv_response = NoResponse
    /\ submissions = 0

\* call_tool("compile_simplicity", arguments)
CallCompile(req) ==
    /\ Dispatchable(sv_pc)
    /\ submissions < MaxSubmissions
    /\ submissions' = submissions + 1
    /\ sv_request' = req
    /\ sv_raised' = FALSE
    /\ sv_result' = NoCompileResult
    /\ sv_response' = NoResponse
    /\ sv_pc' = IF use_temp_files(req) THEN "enter_tmp" ELSE "compile"
    /\ UNCHANGED <<compilation_history, recorded, tmp_files, runVars, fxVars, btVars>>

\* with tempfile.TemporaryDirectory() as tmp_dir:
EnterTmp(raises) ==
    /\ sv_pc = "enter_tmp"
    /\ IF raises
       THEN /\ sv_raised' = TRUE
            /\ sv_pc' = "respond"
            /\ UNCHANGED tmp_files
       ELSE /\ tmp_files' = tmp_files \cup {File("tmp_dir")}
            /\ sv_pc' = "write_source"
            /\ UNCHANGED sv_raised
    /\ UNCHANGED <<compilation_history, recorded, sv_request, sv_result,
                   sv_response, submissions, runVars, fxVars, btVars>>

\* source_path.write_text(source_code)
WriteSource(raises) ==
    /\ sv_pc = "write_source"
    /\ IF raises
       THEN /\ sv_raised' = TRUE
            /\ sv_pc' = "exit_tmp"
            /\ UNCHANGED tmp_files
       ELSE /\ tmp_files' = tmp_files \cup {File("source.simf")}
            /\ sv_pc' = "write_witness"
            /\ UNCHANGED sv_raised
    /\ UNCHANGED <<compilation_history, recorded, sv_request, sv_result,
                   sv_response, submissions, runVars, fxVars, btVars>>

\* if witness_data: witness_path.write_text(witness_data)
WriteWitness(raises) ==
    /\ sv_pc = "write_witness"
    /\ IF sv_request.witness_len = 0
       THEN /\ ~raises
            /\ sv_pc' = "compile"
            /\ UNCHANGED <<tmp_files, sv_raised>>
       ELSE IF raises
            THEN /\ sv_raised' = TRUE
                 /\ sv_pc' = "exit_tmp"
                 /\ UNCHANGED tmp_files
            ELSE /\ tmp_files' = tmp_files \cup {File("witness.wit")}
                 /\ sv_pc' = "compile"
                 /\ UNCHANGED sv_raised
    /\ UNCHANGED <<compilation_history, recorded, sv_request, sv_result,
                   sv_response, submissions, runVars, fxVars, btVars>>

\* what pysimplicityhl.run_from_python does: it returns a JSON object (text or
\* dict) that reports success or not, raises an Exception, returns text that is
\* not JSON, returns a value that is no object (a JSON list, null, a number),
\* or raises an exception that does not derive from Exception (SystemExit,
\* KeyboardInterrupt, the PanicException of a panic in the native code).
\* marker: the text the library hands back (error member, message of the
\* exception, raw text) contains the success marker U+2705.
LibraryOutcomes ==
    { [does |-> "object", success |-> TRUE, marker |-> FALSE],
      [does |-> "object", success |-> FALSE, marker |-> FALSE],
      [does |-> "object", success |-> FALSE, marker |-> TRUE],
      [does |-> "raises", success |-> FALSE, marker |-> FALSE],
      [does |-> "not_json", success |-> FALSE, marker |-> FALSE],
      [does |-> "not_json", success |-> FALSE, marker |-> TRUE],
      [does |-> "not_object", success |-> FALSE, marker |-> FALSE],
      [does |-> "raises_base", success |-> FALSE, marker |-> FALSE] }

\* compile_with_pysimplicityhl: the returned dict (kind: success or failed;
\* marker: its errors or output text contains U+2705), or "escaped" when the
\* exception passes both except clauses. json.dumps escapes U+2705 in output,
\* errors and the raw text of the JSONDecodeError branch are used as they are.
compile_with_pysimplicityhl(lib) ==
    CASE lib.does = "object" ->
            [kind |-> IF lib.success THEN "success" ELSE "failed",
             lib |-> lib.does, marker |-> lib.marker]
      [] lib.does \in {"raises", "not_json"} ->
            [kind |-> "failed", lib |-> lib.does, marker |-> lib.marker]
      [] lib.does = "not_object" ->
            [kind |-> "failed", lib |-> lib.does, marker |-> FALSE]
      [] lib.does = "raises_base" ->
            [kind |-> "escaped", lib |-> lib.does, marker |-> FALSE]

\* the text of the compile_simplicity response contains U+2705: the banner of
\* a success, or the errors and output of the result, which the failure
\* message repeats
CarriesSuccessMarker(result) == result.kind = "success" \/ result.marker

\* result = compile_with_pysimplicityhl(...)
Compile(lib) ==
    /\ sv_pc = "compile"
    /\ sv_result' = compile_with_pysimplicityhl(lib)
    /\ sv_pc' = IF use_temp_files(sv_request) THEN "exit_tmp" ELSE "respond"
    /\ UNCHANGED <<compilation_history, recorded, tmp_files, sv_request, sv_raised,
                   sv_response, submissions, runVars, fxVars, btVars>>

\* leaving the with block, normally or by an exception
ExitTmp ==
    /\ sv_pc = "exit_tmp"
    /\ tmp_files' = Cleanup(tmp_files, sv_raised)
    /\ sv_pc' = "respond"
    /\ UNCHANGED <<compilation_history, recorded, sv_request, sv_raised, sv_result,
                   sv_response, submissions, runVars, fxVars, btVars>>

\* add_to_history(...) and the return, of the try body or of the except
\* clause; an exception that is no Exception passes the except clause and
\* leaves call_tool
Respond ==
    /\ sv_pc = "respond"
    /\ sv_result.kind # "escaped"
    /\ LET outcome == IF sv_raised THEN "unexpected" ELSE sv_result.kind
           source == IF sv_request.source_len > 0
                     THEN Truncated(sv_request.source_len, SourceCap)
                     ELSE FileLabel
           witness == IF sv_request.witness_len > 0
                      THEN Truncated(sv_request.witness_len, WitnessCap)
                      ELSE IF sv_request.witness_file /\ ~sv_raised
                           THEN FileLabel
                           ELSE Truncated(0, WitnessCap)
           entry == Entry(Len(recorded), source, witness, outcome = "success", outcome)
       IN  /\ compilation_history' = add_to_history(compilation_history, entry)
           /\ recorded' = Append(recorded, entry)
           /\ sv_response' = [kind |-> outcome, entries |-> << >>]
    /\ sv_pc' = "idle"
    /\ UNCHANGED <<tmp_files, sv_request, sv_raised, sv_result, submissions,
                   runVars, fxVars, btVars>>

\* call_tool left by the exception of the library: nothing is recorded and no
\* response is built
Escape ==
    /\ sv_pc = "respond"
    /\ sv_result.kind = "escaped"
    /\ sv_response' = [kind |-> "exception", entries |-> << >>]
    /\ sv_pc' = "idle"
    /\ UNCHANGED <<compilation_history, recorded, tmp_files, sv_request, sv_raised,
                   sv_result, submissions, runVars, fxVars, btVars>>

\* call_tool("get_compilation_history", {"limit": limit}); limit defaults to 10
GetHistory(limit) ==
    /\ Dispatchable(sv_pc)
    /\ sv_request' = [NoRequest EXCEPT !.tool = "get_compilation_history",
                                       !.limit = limit]
    /\ LET listed == SliceLast(compilation_history, limit)
       IN  sv_response' = IF listed = << >>
                          THEN [kind |-> "no_history", entries |-> << >>]
                          ELSE [kind |-> "history", entries |-> Reversed(listed)]
    /\ UNCHANGED <<compilation_history, recorded, tmp_files, sv_pc, sv_raised,
                   sv_result, submissions, runVars, fxVars, btVars>>

SvNext ==
    \/ \E req \in CompileRequests : CallCompile(req)
    \/ \E raises \in BOOLEAN : EnterTmp(raises)
    \/ \E raises \in BOOLEAN : WriteSource(raises)
    \/ \E raises \in BOOLEAN : WriteWitness(raises)
    \/ \E lib \in LibraryOutcomes : Compile(lib)
    \/ ExitTmp
    \/ Respond
    \/ Escape
    \/ \E limit \in Limits : GetHistory(limit)

SpecServer == SvInit /\ [][SvNext]_vars

\* the k most recently recorded entries, oldest first
MostRecent(entries, k) == SubSeq(entries, Len(entries) - k + 1, Len(entries))

\* C13: the history holds at most 50 entries, and they are the most recently
\* recorded ones in insertion order: all of them while no more than 50 were
\* recorded, exactly the last 50 afterwards.
C13_HistoryBounded ==
    /\ Len(compilation_history) <= HistoryCapacity
    /\ compilation_history =
          MostRecent(recorded, Min(Len(recorded), HistoryCapacity))

C13_Witness ==
    /\ Len(recorded) = HistoryCapacity + 2
    /\ Len(compilation_history) = HistoryCapacity
    /\ compilation_history[1] = recorded[3]
    /\ compilation_history[HistoryCapacity].outcome = "unexpected"

\* C14 as stated: get_compilation_history returns the min(limit, size) most
\* recently recorded entries, most recent first, and never more than limit
\* entries.
C14_Claim ==
    (sv_pc = "idle" /\ sv_request.tool = "get_compilation_history")
    => /\ sv_response.entries =
             Reversed(MostRecent(compilation_history,
                                 Max(0, Min(sv_request.limit, Len(compilation_history)))))
       /\ Len(sv_response.entries) <= sv_request.limit

\* C17: when a compile_simplicity submission has returned its response no
\* temporary artifact exists, whatever the outcome; and an artifact that
\* exists belongs to the submission being handled.
C17_TempFilesScoped ==
    /\ sv_pc = "idle" => tmp_files = {}
    /\ \A f \in tmp_files : f.submission = submissions

C17_Witness ==
    /\ sv_pc = "idle"
    /\ sv_request.tool = "compile_simplicity"
    /\ sv_request.witness_len > 0
    /\ sv_response.kind = "unexpected"
    /\ submissions = 2
    /\ Len(recorded) >= 2
    /\ recorded[Len(recorded) - 1].outcome = "success"
    /\ recorded[Len(recorded) - 1].source_code.kind = "text"
    /\ tmp_files = {}

\* C26 as stated: whatever the compiler library does other than report a
\* success, compile_with_pysimplicityhl returns a result with success = false,
\* the compile_simplicity call returns a failure response whose text carries no
\* success marker, and no exception reaches the caller of the tool.
C26_Claim ==
    (/\ sv_pc = "idle"
     /\ sv_request.tool = "compile_simplicity"
     /\ sv_result.lib \notin {"none", "object"})
    => /\ sv_result.kind = "failed"
       /\ sv_response.kind = "failed"
       /\ ~CarriesSuccessMarker(sv_result)

-----------------------------------------------------------------------------
\* The Batch Runner: main() of agent_autofix.py, agent_claude.py and
\* test_examples.py over the literal list of cases.

\* len(test_files)
NumCases == 4

\* max_attempts of the batch (--max-attempts=N)
MaxBatchAttempts == 2

BatchRunners == {"autofix", "claude", "examples"}

ExitCode_AnyFixed(results) ==
    IF \E k \in 1..Len(results) : results[k] THEN 0 ELSE 1

\* fixed = sum(results.values()); return 0 if fixed == total else 1
ExitCode(results) ==
    IF \A k \in 1..Len(results) : results[k] THEN 0 ELSE 1

BtInit ==
    /\ RunIdle
    /\ FxIdle
    /\ SvIdle
    /\ bt_impl \in BatchRunners
    /\ bt_pc = "next"
    /\ bt_index = 0
    /\ bt_success = FALSE
    /\ bt_results = << >>
    /\ bt_raised = {}
    /\ bt_summary = FALSE
    /\ bt_exit = NoExit
    /\ bt_attempt = 0
    /\ bt_outstanding = 0
    /\ bt_repairing = 0
    /\ bt_reply = "none"

\* an exception leaves main(): asyncio.run re-raises it and the interpreter
\* ends with a traceback and exit status 1
Abort ==
    /\ bt_raised' = bt_raised \cup {bt_index}
    /\ bt_pc' = "aborted"
    /\ bt_exit' = 1
    /\ UNCHANGED <<bt_impl, bt_index, bt_success, bt_summary, bt_attempt,
                   bt_outstanding, bt_repairing, bt_reply>>

\* for name, source, witness in test_files:
NextCase ==
    /\ bt_pc = "next"
    /\ bt_index < NumCases
    /\ bt_index' = bt_index + 1
    /\ bt_attempt' = 0
    /\ bt_pc' = "read"
    /\ UNCHANGED <<bt_impl, bt_success, bt_results, bt_raised, bt_summary, bt_exit,
                   bt_outstanding, bt_repairing, bt_reply, runVars, fxVars, svVars>>

\* Path(source_file).read_text() and the read of the witness file
ReadFiles(raises) ==
    /\ bt_pc = "read"
    /\ IF raises
       THEN Abort /\ UNCHANGED bt_results
       ELSE /\ bt_pc' = "run"
            /\ UNCHANGED <<bt_impl, bt_index, bt_success, bt_results, bt_raised,
                           bt_summary, bt_exit, bt_attempt, bt_outstanding,
                           bt_repairing, bt_reply>>
    /\ UNCHANGED <<runVars, fxVars, svVars>>

Awaited_NoAwait(pending) == TRUE

\* await: the coroutine goes on only when the call it awaits has ended
Awaited(pending) == pending = 0

\* result = await session.call_tool("compile_simplicity", ...): the request
\* of the next attempt is sent
BtSubmit ==
    /\ bt_pc = "run"
    /\ bt_attempt' = bt_attempt + 1
    /\ bt_outstanding' = bt_outstanding + 1
    /\ bt_reply' = "none"
    /\ bt_pc' = "submitted"
    /\ UNCHANGED <<bt_impl, bt_index, bt_success, bt_results, bt_raised, bt_summary,
                   bt_exit, bt_repairing, runVars, fxVars, svVars>>

\* the server answers an outstanding request, or the call fails
BtAnswer(outcome) ==
    /\ bt_outstanding > 0
    /\ bt_outstanding' = bt_outstanding - 1
    /\ bt_reply' = outcome
    /\ UNCHANGED <<bt_impl, bt_pc, bt_index, bt_success, bt_results, bt_raised,
                   bt_summary, bt_exit, bt_attempt, bt_repairing,
                   runVars, fxVars, svVars>>

\* the statements after the await of the tool call: the retry run returns on
\* a success and after the last attempt and starts the repair otherwise
\* (compile_and_fix, compile_with_retries); test_example makes one call and
\* alone catches its exception
BtResume ==
    /\ bt_pc = "submitted"
    /\ Awaited(bt_outstanding)
    /\ IF bt_reply = "raises" /\ bt_impl # "examples"
       THEN Abort /\ UNCHANGED bt_results
       ELSE IF /\ bt_reply # "success"
               /\ bt_impl # "examples"
               /\ bt_attempt < MaxBatchAttempts
            THEN /\ bt_repairing' = bt_repairing + 1
                 /\ bt_reply' = "none"
                 /\ bt_pc' = "repairing"
                 /\ UNCHANGED <<bt_impl, bt_index, bt_success, bt_results, bt_raised,
                                bt_summary, bt_exit, bt_attempt, bt_outstanding>>
            ELSE LET success == (bt_reply = "success")
                 IN  /\ bt_success' = success
                     /\ bt_raised' = IF bt_reply = "raises"
                                     THEN bt_raised \cup {bt_index} ELSE bt_raised
                     /\ bt_results' = IF bt_impl = "autofix" /\ success
                                      THEN bt_results ELSE Append(bt_results, success)
                     /\ bt_pc' = IF bt_impl # "examples" /\ success
                                 THEN "save" ELSE "next"
                     /\ UNCHANGED <<bt_impl, bt_index, bt_summary, bt_exit, bt_attempt,
                                    bt_outstanding, bt_repairing, bt_reply>>
    /\ UNCHANGED <<runVars, fxVars, svVars>>

\* the repair call ends: it returns, or an exception leaves the repair step
BtRepaired(raises) ==
    /\ bt_repairing > 0
    /\ bt_repairing' = bt_repairing - 1
    /\ bt_reply' = IF raises THEN "raises" ELSE "repaired"
    /\ UNCHANGED <<bt_impl, bt_pc, bt_index, bt_success, bt_results, bt_raised,
                   bt_summary, bt_exit, bt_attempt, bt_outstanding,
                   runVars, fxVars, svVars>>

\* the statements after the await of the repair call: the loop goes on to the
\* next attempt
BtContinue ==
    /\ bt_pc = "repairing"
    /\ Awaited(bt_repairing)
    /\ IF bt_reply = "raises"
       THEN Abort /\ UNCHANGED bt_results
       ELSE /\ bt_pc' = "run"
            /\ UNCHANGED <<bt_impl, bt_index, bt_success, bt_results, bt_raised,
                           bt_summary, bt_exit, bt_attempt, bt_outstanding,
                           bt_repairing, bt_reply>>
    /\ UNCHANGED <<runVars, fxVars, svVars>>

\* if success: output_file.write_text(final_code)
Save(raises) ==
    /\ bt_pc = "save"
    /\ IF raises
       THEN Abort /\ UNCHANGED bt_results
       ELSE /\ bt_results' = IF bt_impl = "autofix"
                             THEN Append(bt_results, bt_success) ELSE bt_results
            /\ bt_pc' = "next"
            /\ UNCHANGED <<bt_impl, bt_index, bt_success, bt_raised, bt_summary, bt_exit,
                           bt_attempt, bt_outstanding, bt_repairing, bt_reply>>
    /\ UNCHANGED <<runVars, fxVars, svVars>>

\* the summary and the return of the exit code
Finish ==
    /\ bt_pc = "next"
    /\ bt_index = NumCases
    /\ bt_summary' = TRUE
    /\ bt_exit' = ExitCode(bt_results)
    /\ bt_pc' = "exited"
    /\ UNCHANGED <<bt_impl, bt_index, bt_success, bt_results, bt_raised, bt_attempt,
                   bt_outstanding, bt_repairing, bt_reply, runVars, fxVars, svVars>>

BtNext ==
    \/ NextCase
    \/ \E raises \in BOOLEAN : ReadFiles(raises)
    \/ BtSubmit
    \/ \E outcome \in {"success", "failure", "raises"} : BtAnswer(outcome)
    \/ BtResume
    \/ \E raises \in BOOLEAN : BtRepaired(raises)
    \/ BtContinue
    \/ \E raises \in BOOLEAN : Save(raises)
    \/ Finish

SpecBatch == BtInit /\ [][BtNext]_vars

BatchEnded == bt_pc \in {"exited", "aborted"}

\* C15 as stated: when processing a case raised, that case is recorded as
\* failed, every case of the list is processed, and the process ends with a
\* summary and exit code 1.
C15_Claim ==
    (BatchEnded /\ bt_raised # {})
    => /\ bt_summary
       /\ bt_exit = 1
       /\ Len(bt_results) = NumCases
       /\ \A k \in bt_raised : ~bt_results[k]

\* C16: when the batch run completes, every case was processed and the exit
\* code is 0 if and only if every case succeeded, 1 otherwise; only an
\* exception, never a failed case, ends the batch before the last case.
C16_ExitCode ==
    /\ bt_pc = "exited" =>
          /\ Len(bt_results) = NumCases
          /\ bt_exit \in {0, 1}
          /\ bt_exit = 0 <=> \A k \in 1..NumCases : bt_results[k]
    /\ bt_pc = "aborted" => bt_raised # {}
    /\ (BatchEnded /\ bt_raised = {}) => Len(bt_results) = NumCases

C16_Witness ==
    /\ bt_pc = "exited"
    /\ bt_impl = "claude"
    /\ bt_results = <<TRUE, FALSE, TRUE, TRUE>>
    /\ bt_exit = 1

\* C24: in a batch run at most one call is in flight in every state, a compile
\* submission or a repair, never two submissions and never a submission
\* together with a repair; a call is in flight only while the controller waits
\* for it inside the one case it is processing; and the cases are taken one at
\* a time in list order, each after the results of all earlier ones.
C24_Sequential ==
    /\ bt_outstanding + bt_repairing <= 1
    /\ bt_outstanding = 1 => bt_pc = "submitted"
    /\ bt_repairing = 1 => bt_pc = "repairing"
    /\ bt_pc = "repairing" => bt_attempt < MaxBatchAttempts
    /\ bt_attempt <= MaxBatchAttempts
    /\ bt_index <= NumCases
    /\ bt_pc \in {"read", "run", "submitted", "repairing"}
          => Len(bt_results) = bt_index - 1
    /\ bt_pc = "next" => Len(bt_results) = bt_index

C24_Witness ==
    /\ bt_pc = "submitted"
    /\ bt_index = 2
    /\ bt_attempt = 2
    /\ bt_outstanding = 1
    /\ bt_repairing = 0
    /\ bt_results = <<FALSE>>

-----------------------------------------------------------------------------
\* The retry run again: repairs and what is submitted after them.

\* the repair of attempt k returned the source it was given
Stagnant(k) == repairs[k].result = Str(repairs[k].source)

\* C18: after a repair that returns the source unchanged the run has not
\* ended: the same source is what the next attempt submits, and that attempt
\* counts, so a run that returns failure has made all max_attempts attempts.
C18_NoStagnationStop ==
    /\ \A k \in 1..Len(repairs) :
          Stagnant(k) =>
             /\ ~(Terminated /\ Len(requests) = k)
             /\ Len(requests) = k => (pc = "loop" /\ current_code = repairs[k].source)
             /\ Len(requests) > k => requests[k + 1] = repairs[k].source
    /\ (pc = "returned" /\ ~ret.success /\ max_attempts >= 1)
          => attemptsMade = max_attempts

C18_Witness ==
    /\ pc = "returned"
    /\ ~ret.success
    /\ max_attempts = 3
    /\ Len(requests) = 3
    /\ Len(repairs) = 2
    /\ Stagnant(2)
    /\ requests[3] = requests[2]

\* C19: with the delegated strategy, the source of the next attempt is the
\* fixed source of the fix result the repair returned, whatever its
\* confidence.
C19_FixAppliedWhateverConfidence ==
    impl = "claude" =>
       \A k \in 1..Len(repairs) :
          repairs[k].result.ty = "str" =>
             /\ Len(requests) = k => current_code = repairs[k].result.text
             /\ Len(requests) > k => requests[k + 1] = repairs[k].result.text

C19_Witness ==
    /\ impl = "claude"
    /\ fix_path = "llm"
    /\ fix_result = ZeroConfFix
    /\ Len(repairs) = 1
    /\ Len(requests) = 2
    /\ requests[1] # requests[2]
    /\ requests[2] = ZeroConfFix.fixed_code.text

ServerMessages == {STR_expected_program}

\* C20 as stated: when the failed submission was answered by the response of
\* the server's compile_simplicity for a compiler result with a message, the
\* error handed to the repair strategy is that message.
C20_Claim ==
    \A k \in 1..Len(repairs) :
       \A message \in ServerMessages :
          replies[k] = ServerFailure(message) => repairs[k].error = Str(message)

-----------------------------------------------------------------------------
\* The Delegated Fix Engine against the Pattern Fix Engine.

\* the last invocation of the repair strategy
LastRepair == repairs[Len(repairs)]

\* C21 as stated: when the Delegated Fix Engine fell back, the fixed source it
\* returned is the output of the Pattern Fix Engine for the same source and
\* error.
C21_Claim ==
    (/\ impl = "claude"
     /\ repairs # << >>
     /\ fix_path \in {"no_client", "except"}
     /\ LastRepair.error.ty = "str")
    => LastRepair.result =
          Str(apply_rule_based_fixes(LastRepair.source, LastRepair.error.text))

\* the response text holds the serialisation of one JSON object with a fixed
\* source, fenced or surrounded by other text
HoldsOneObject(reply) ==
    /\ ~reply.raises
    /\ reply.obj.k = "dict"
    /\ reply.obj.fixed_code.ty = "str"
    /\ Cardinality({i \in 1..Len(reply.toks) : reply.toks[i] = "JSON"}) = 1

\* C22 as stated: for every response that holds one JSON object the engine
\* takes no fallback, returns the fixed source of that object, and the
\* returned result has an explanation and a confidence.
C22_Claim ==
    [][\A reply \in ServiceReplies :
          (has_client /\ HoldsOneObject(reply) /\ ClaudeRepair(reply))
          => /\ fix_path' = "llm"
             /\ fix_result'.fixed_code = reply.obj.fixed_code
             /\ fix_result'.explanation.ty # "absent"
             /\ fix_result'.confidence.ty # "absent"]_vars

-----------------------------------------------------------------------------
\* Rule 1 and the wrapper-stripping rule in one call.

-----------------------------------------------------------------------------
\* The retry run: its history, and how submissions and repairs follow each
\* other.

\* the canonical error the controller derives from the response to attempt k
CanonicalError(k) ==
    IF impl = "autofix"
    THEN ExtractError(replies[k], AsciiIgnore(Raw(replies[k])), STR_message)
    ELSE ExtractError(replies[k], Raw(replies[k]), STR_message_colon)

\* C25 as stated: the repair strategy is invoked exactly once after each
\* failed attempt that is not the last permitted one, never after a
\* successful attempt nor after attempt max_attempts, so a finished run with
\* n >= 1 attempts made exactly n - 1 repair calls.
C25_Claim ==
    /\ Len(repairs) <= Len(replies)
    /\ \A k \in 1..Len(repairs) : ~ReportsSuccess(replies[k]) /\ k < max_attempts
    /\ Terminated =>
          /\ \A k \in 1..Len(replies) :
                (~ReportsSuccess(replies[k]) /\ k < max_attempts) => k <= Len(repairs)
          /\ attemptsMade >= 1 => Len(repairs) = attemptsMade - 1

\* C28: in a returned history every attempt but the last failed, at most one
\* attempt succeeded, and the success flag is true exactly when the history
\* is non-empty and its last attempt succeeded.
C28_HistoryShape ==
    pc = "returned" =>
       LET h == ret.history
       IN  /\ \A k \in 1..(Len(h) - 1) : ~h[k].success
           /\ Cardinality({k \in 1..Len(h) : h[k].success}) <= 1
           /\ ret.success <=> (h # << >> /\ h[Len(h)].success)

C28_Witness ==
    /\ pc = "returned"
    /\ ret.success
    /\ Len(ret.history) = 2
    /\ ~ret.history[1].success
    /\ ret.history[2].success

\* `fixed` is an output of the repair strategy for `source` and `error`
RepairOutput(source, error, fixed) ==
    IF impl = "autofix"
    THEN fixed = Str(IF use_llm
                     THEN fix_code_with_llm(source, error.text, attempt)
                     ELSE apply_rule_based_fixes(source, error.text))
    ELSE \E reply \in ServiceReplies :
            analyze_and_fix(has_client, source, error, reply).result.fixed_code = fixed

\* C29: in a returned history attempt 1 has the initial source and attempt
\* k + 1 has the repair strategy's output for the source and the canonical
\* error of attempt k; an attempt once recorded is never changed. Stated of
\* every step of a run: the history only grows, what a repair call returns is
\* an output of the strategy for the source and error of the attempt before
\* it, and a returned history is chained by these repair calls.
C29_HistoryChain ==
    [][/\ Len(history') >= Len(history)
       /\ \A k \in 1..Len(history) : history'[k] = history[k]
       /\ Len(repairs') > Len(repairs) =>
             LET k == Len(repairs')
             IN  /\ repairs'[k].source = requests[k]
                 /\ repairs'[k].error = CanonicalError(k)
                 /\ RepairOutput(requests[k], CanonicalError(k), repairs'[k].result)
       /\ pc' = "returned" =>
             LET h == ret'.history
             IN  /\ h = history'
                 /\ h # << >> => h[1].code = source_code
                 /\ \A k \in 1..(Len(h) - 1) :
                       /\ repairs[k].source = h[k].code
                       /\ repairs[k].result = Str(h[k + 1].code)]_vars

C29_Witness ==
    /\ pc = "returned"
    /\ impl = "claude"
    /\ Len(ret.history) = 3
    /\ ret.history[2].code # ret.history[1].code
    /\ ret.history[3].code # ret.history[2].code

=============================================================================
